---- MODULE Spec2Model ----
(***************************************************************************)
(* State-machine model of the samplers of notebooks/Sampling_Slice.ipynb   *)
(* and the Gibbs notebook that follows it in the same source file:         *)
(* SliceSampling (step-out / shrink slice sampler), MultiSampling (a 1-D   *)
(* sampler applied along a list of directions) and GibbsSampling (a sweep  *)
(* of per-coordinate transitions).                                         *)
(*                                                                         *)
(* Abstraction.  Positions live on an integer grid whose unit is the       *)
(* spacing of the doubles at hand; the step width w is a positive number   *)
(* of grid units.  The code computes in doubles, and the model keeps what  *)
(* rounding does to the values the code compares and tests:                *)
(*  - r*w and (1-r)*w of lines 111-112 are rounded one by one: the two     *)
(*    offsets x - xl and xr - x are each in 0..w (w itself for the largest *)
(*    draws r) and add up to w or to a neighbour of w;                     *)
(*  - xl -= w and xr += w store the exact difference or sum, or a          *)
(*    neighbouring grid point;                                             *)
(*  - np.random.uniform(low, high) computes low + (high-low)*r, and the    *)
(*    largest draws round to high, so a proposal is a grid point of        *)
(*    xl..xr, the right end included;                                      *)
(*  - a log-density value is a level: NegInf (log 0), the finite levels    *)
(*    1..Huge-1 whose exp is a finite double, and Huge, a finite value     *)
(*    whose exp overflows to +inf.  A slice level log(u) is represented by *)
(*    the greatest level not above it, which decides every comparison      *)
(*    log_p(.) > log_u  the code makes.  For the largest draws u the       *)
(*    double log(u) rounds to log_p(x) itself, and where exp(log_p(x)) is  *)
(*    subnormal (log_p(x) below about -708.4) exp rounds so coarsely that  *)
(*    log(u) exceeds log_p(x) and the log-density of other points: every   *)
(*    level below Huge is an outcome.                                      *)
(*  - self.x + ux*d of MultiSampling is a sum of doubles, rounded in each   *)
(*    coordinate: for an offset ux # 0 along a coordinate with d # 0 the   *)
(*    plane point is the exact sum or a neighbouring grid point (the       *)
(*    offsets of the 1-D sampler lie around 0, where doubles are finer     *)
(*    than at the plane point, so an offset can be too small to move the   *)
(*    point, or lie half-way between two points); the offset 0 and a       *)
(*    coordinate with d = 0 leave the coordinate as it is.                 *)
(* The transitions of GibbsSampling are draws among grid values.           *)
(***************************************************************************)
EXTENDS Integers, Sequences, FiniteSets, TLC

\* ------------------------------------------------------------------ bounds
MaxX == 2          \* the target's support lies inside the grid points 0..MaxX
MaxW == 2          \* largest step width, in grid units
MaxCalls == 2      \* sample() calls started on one sampler object

MaxEvals == 8      \* evaluations of log_p explored on one SliceSampling object

MaxX2 == 1         \* the 2-D target's support lies inside (0..MaxX2) x (0..MaxX2)
MaxMultiEvals == 8 \* evaluations of log_p explored on one MultiSampling object

\* SliceSampling(log_p, x, w=1.0) of the MultiSampling cells: the grid unit
\* of the plane is the step width of their 1-D samplers
UniW == 1

\* --------------------------------------------------------- value domains
Core == 0..MaxX
Core2 == (0..MaxX2) \X (0..MaxX2)
Positions == (0 - MaxX - 2 * MaxW)..(MaxX + 2 * MaxW)

\* np.log(0): the log-density of a point outside the support
NegInf == 0
\* a finite log-density whose np.exp is +inf (above about 709.78)
Huge == 3
LogValues == NegInf..Huge

VARIABLES
    kind,         \* which sampler class the driving loop exercises
    finished,     \* the kinds of the sampler cells that have ended, in order
    log_p,        \* the target given to the constructor: a table of levels
    x,            \* SliceSampling.x
    w,            \* SliceSampling.w
    samples,      \* SliceSampling.samples
    evals,        \* SliceSampling.evals
    pc,           \* position inside SliceSampling.sample()
    log_u_prime,  \* local log_u_prime of SliceSampling.sample()
    xl,           \* local xl of SliceSampling.sample()
    xr,           \* local xr of SliceSampling.sample()
    nret,         \* number of values SliceSampling.sample() has returned
    lastRet,      \* the value the most recent SliceSampling return handed back
    lastEval,     \* the argument of the most recent call of the target log_p
    opc,          \* position inside MultiSampling.sample() / GibbsSampling.sample()
    ncalls,       \* sample() calls started on the Multi/Gibbs object
    mx,           \* MultiSampling.x
    directions,   \* MultiSampling.directions
    mk,           \* index of the direction the for loop is at
    mx0,          \* MultiSampling.x as it was when the running call started
    us,           \* the offsets ux_prime drawn so far in the running call
    mret,         \* how many states MultiSampling.sample() has returned, and the latest
    mevals,       \* evaluations of log_p made through the MultiSampling object
    heap,         \* the Python lists in memory: object id -> its items
    gx,           \* GibbsSampling.x: the id of a list
    lx,           \* local x of GibbsSampling.sample(): the id of a list
    gi,           \* local i of GibbsSampling.sample()
    gprev,        \* the items of GibbsSampling.x when the running call started
    gviews,       \* the (index, argument) of each transition invoked in the call
    gout,         \* the values the transitions returned in the call
    collected     \* the ids the driving loop collected from GibbsSampling.sample()

sliceVars == <<x, w, samples, evals, pc, log_u_prime, xl, xr, nret, lastRet,
               lastEval>>
multiState == <<mx, directions, mk, mx0, us, mret>>
multiVars == <<multiState, mevals>>
gibbsVars == <<heap, gx, lx, gi, gprev, gviews, gout, collected>>
vars == <<kind, finished, log_p, sliceVars, opc, ncalls, multiVars, gibbsVars>>

\* ------------------------------------------------------------- helpers
VecAdd(a, b) == <<a[1] + b[1], a[2] + b[2]>>
VecScale(u, d) == <<u * d[1], u * d[2]>>
Abs(n) == IF n < 0 THEN 0 - n ELSE n
Max(a, b) == IF a > b THEN a ELSE b
Min(a, b) == IF a < b THEN a ELSE b

\* ----------------------------------------------------- SliceSampling
\* evaluations explored on the sampler object at hand
EvalsExplored == IF kind = "multi" THEN MaxMultiEvals ELSE MaxEvals

\* evaluations made so far on the sampler object at hand
EvalsSoFar == IF kind = "multi" THEN mevals ELSE evals

\* a call of uni_log_p is a call of MultiSampling.log_p
CountEval == mevals' = (IF kind = "multi" THEN mevals + 1 ELSE mevals)

\* the double a sum or difference of doubles is stored as: the exact
\* result v or a neighbouring grid point
Rounded(v) == {v - 1, v, v + 1}

\* one coordinate of self.x + ux*d: a + t in doubles.  Adding 0 changes
\* nothing; any other sum is rounded.
RoundedSum(a, t) == IF t = 0 THEN {a} ELSE Rounded(a + t)

\* self.x + ux*d with px for self.x: the doubles the sum can be, coordinate
\* by coordinate
Moved(px, ux, d) == RoundedSum(px[1], ux * d[1]) \X RoundedSum(px[2], ux * d[2])

\* UniPoints with self.x captured once, when sample() was entered
UniPointsStale(ux) == Moved(mx0, ux, directions[mk])

\* uni_log_p = lambda ux: self.log_p(self.x + ux*d): the points of the plane
\* the 1-D sampler's offset ux can stand for
UniPoints(ux) == Moved(mx, ux, directions[mk])

\* the arguments the caller's log_p can receive when the 1-D sampler
\* evaluates v
EvalPoints(v) == IF kind = "multi" THEN UniPoints(v) ELSE {v}

\* self.log_p(p) for the argument p the target receives: the target is zero
\* (log = -inf) off its support.
LogP(p) == IF p \in DOMAIN log_p THEN log_p[p] ELSE NegInf

\* np.exp(log_px) is +inf for a log-density above the double range, and
\* np.random.uniform(low=0, high=inf) raises OverflowError.
ExpOverflows(l) == l = Huge

\* The levels np.log(np.random.uniform(0, np.exp(l))) can take: u = 0 gives
\* -inf (the only draw when exp(l) = 0); for the largest doubles u below
\* exp(l) the log rounds to l; where exp(l) is subnormal, u can be exp(l)
\* rounded up and log(u) lies above l, up to any level whose exp is finite.
SliceLevels(l) == IF l = NegInf THEN {NegInf} ELSE NegInf..(Huge - 1)

\* the pairs <<x - xl, xr - x>> lines 110-112 can produce for a draw r of
\* [0,1): r*self.w and (1-r)*self.w are each 0..w and are rounded one by
\* one, so they add up to w or to a neighbour of w
BracketOffsets(pw) ==
    {ab \in (0..pw) \X (0..pw) : ab[1] + ab[2] \in Rounded(pw)}

\* xl = self.x - r*self.w ; xr = self.x + (1-r)*self.w
InitialBracket(px, ab) == <<px - ab[1], px + ab[2]>>

\* the test of both step-out loops and of the acceptance
Above(l, lu) == l > lu

\* Shrink with the two assignments swapped: the far endpoint is kept
ShrinkWrongSide(pxl, pxr, px, xp) == IF xp > px THEN <<xp, pxr>> ELSE <<pxl, xp>>

\* the else branch of the main loop: adjust the interval around self.x
Shrink(pxl, pxr, px, xp) == IF xp > px THEN <<pxl, xp>> ELSE <<xp, pxr>>

\* where self.samples is incremented: on entry of sample()
CountOnEntry(n) == n + 1

\* lines 105-112 on a sampler whose fields are px, psamples, pevals: count
\* the call, evaluate log_p(self.x), draw the slice level, place the bracket
BeginSample(px, psamples, pevals) ==
    /\ EvalsSoFar < EvalsExplored
    /\ samples' = CountOnEntry(psamples)
    /\ evals' = pevals + 1
    /\ CountEval
    /\ \E p \in EvalPoints(px) :
          /\ lastEval' = p
          /\ IF ExpOverflows(LogP(p))
             THEN /\ pc' = "raised"
                  /\ UNCHANGED <<log_u_prime, xl, xr>>
             ELSE /\ \E lu \in SliceLevels(LogP(p)) : log_u_prime' = lu
                  /\ \E ab \in BracketOffsets(w) :
                         /\ xl' = InitialBracket(px, ab)[1]
                         /\ xr' = InitialBracket(px, ab)[2]
                  /\ pc' = "left"

\* a call of sample() by the driving loop on a SliceSampling object
SampleBegin ==
    /\ kind = "slice"
    /\ pc \in {"idle", "raised"}
    /\ samples < MaxCalls
    /\ BeginSample(x, samples, evals)
    /\ UNCHANGED <<kind, finished, log_p, x, w, nret, lastRet, opc, ncalls, multiState, gibbsVars>>

\* lines 113-114: one test of the left step-out loop
StepOutLeft ==
    /\ pc = "left"
    /\ EvalsSoFar < EvalsExplored
    /\ evals' = evals + 1
    /\ CountEval
    /\ \E p \in EvalPoints(xl) :
          /\ lastEval' = p
          /\ IF Above(LogP(p), log_u_prime)
             THEN xl' \in Rounded(xl - w) /\ pc' = "left"
             ELSE xl' = xl /\ pc' = "right"
    /\ UNCHANGED <<kind, finished, log_p, x, w, samples, log_u_prime, xr, nret, lastRet,
                   opc, ncalls, multiState, gibbsVars>>

\* lines 115-116: one test of the right step-out loop
StepOutRight ==
    /\ pc = "right"
    /\ EvalsSoFar < EvalsExplored
    /\ evals' = evals + 1
    /\ CountEval
    /\ \E p \in EvalPoints(xr) :
          /\ lastEval' = p
          /\ IF Above(LogP(p), log_u_prime)
             THEN xr' \in Rounded(xr + w) /\ pc' = "right"
             ELSE xr' = xr /\ pc' = "shrink"
    /\ UNCHANGED <<kind, finished, log_p, x, w, samples, log_u_prime, xl, nret, lastRet,
                   opc, ncalls, multiState, gibbsVars>>

\* Proposals drawn one grid step past the right end of the bracket
ProposalsPastRight == xl..(xr + 1)

\* x_prime = np.random.uniform(low=xl, high=xr): any point of the bracket,
\* xr itself for the largest draws
Proposals == xl..xr

\* return: the locals log_u_prime, xl, xr of the call go out of scope
EndFrame == log_u_prime' = NegInf /\ xl' = 0 /\ xr' = 0

\* Accept returning the proposal without storing it in self.x
AcceptNoStore(xp) ==
    /\ pc = "shrink"
    /\ xp \in Proposals
    /\ EvalsSoFar < EvalsExplored
    /\ evals' = evals + 1
    /\ CountEval
    /\ \E p \in EvalPoints(xp) :
          /\ lastEval' = p
          /\ Above(LogP(p), log_u_prime)
    /\ lastRet' = xp
    /\ nret' = nret + 1
    /\ pc' = "idle"
    /\ EndFrame
    /\ UNCHANGED <<kind, finished, log_p, x, w, samples, opc, ncalls, multiState, gibbsVars>>

\* lines 119-123: a proposal that is accepted
Accept(xp) ==
    /\ pc = "shrink"
    /\ xp \in Proposals
    /\ EvalsSoFar < EvalsExplored
    /\ evals' = evals + 1
    /\ CountEval
    /\ \E p \in EvalPoints(xp) :
          /\ lastEval' = p
          /\ Above(LogP(p), log_u_prime)
    /\ x' = xp
    /\ lastRet' = xp
    /\ nret' = nret + 1
    /\ pc' = "idle"
    /\ EndFrame
    /\ UNCHANGED <<kind, finished, log_p, w, samples, opc, ncalls, multiState, gibbsVars>>

\* lines 119-121, 124-129: a proposal that is rejected
Reject(xp) ==
    /\ pc = "shrink"
    /\ xp \in Proposals
    /\ EvalsSoFar < EvalsExplored
    /\ evals' = evals + 1
    /\ CountEval
    /\ \E p \in EvalPoints(xp) :
          /\ lastEval' = p
          /\ ~Above(LogP(p), log_u_prime)
    /\ xl' = Shrink(xl, xr, x, xp)[1]
    /\ xr' = Shrink(xl, xr, x, xp)[2]
    /\ UNCHANGED <<kind, finished, log_p, x, w, samples, log_u_prime, pc, nret, lastRet,
                   opc, ncalls, multiState, gibbsVars>>

SliceInit ==
    /\ kind = "slice"
    /\ finished = <<>>
    /\ log_p \in [Core -> LogValues]
    /\ x \in Core
    /\ w \in 1..MaxW
    /\ samples = 0
    /\ evals = 0
    /\ pc = "idle"
    /\ log_u_prime = NegInf
    /\ xl = 0
    /\ xr = 0
    /\ nret = 0
    /\ lastRet = 0
    /\ lastEval = 0
    /\ opc = "idle"
    /\ ncalls = 0
    /\ mx = <<0, 0>>
    /\ directions = <<>>
    /\ mk = 0
    /\ mx0 = <<0, 0>>
    /\ us = <<>>
    /\ mret = [n |-> 0, last |-> <<0, 0>>]
    /\ mevals = 0
    /\ heap = <<>>
    /\ gx = 0
    /\ lx = 0
    /\ gi = 0
    /\ gprev = <<>>
    /\ gviews = <<>>
    /\ gout = <<>>
    /\ collected = <<>>

SliceNext ==
    \/ SampleBegin
    \/ StepOutLeft
    \/ StepOutRight
    \/ \E xp \in Positions : Accept(xp)
    \/ \E xp \in Positions : Reject(xp)

SliceSpec == SliceInit /\ [][SliceNext]_vars

\* ----------------------------------------------------- MultiSampling
\* a call of sample() by the driving loop on a MultiSampling object: the
\* for loop over self.directions starts
MultiBegin ==
    /\ kind = "multi"
    /\ opc \in {"idle", "raised"}
    /\ ncalls < MaxCalls
    /\ ncalls' = ncalls + 1
    /\ mx0' = mx
    /\ us' = <<>>
    /\ mk' = 1
    /\ opc' = "loop"
    /\ UNCHANGED <<kind, finished, log_p, sliceVars, mx, directions, mret, mevals,
                   gibbsVars>>

\* lines 183-184: self.uni_sampler(uni_log_p, 0) builds a fresh 1-D sampler
\* at offset 0 and its sample() is entered
MultiDirection ==
    /\ opc = "loop"
    /\ mk <= Len(directions)
    /\ x' = 0
    /\ nret' = 0
    /\ lastRet' = 0
    /\ BeginSample(0, 0, 0)
    /\ opc' = "inner"
    /\ UNCHANGED <<kind, finished, log_p, w, ncalls, multiState, gibbsVars>>

\* line 185: the 1-D sampler has returned ux_prime.  self.x + ux_prime*d is
\* the sum line 183 computed when the 1-D sampler evaluated the proposal it
\* then returned (self.x and d are the same), so it is the same double.
MultiAdvance ==
    /\ opc = "inner"
    /\ pc = "idle"
    /\ mx' \in Moved(mx, lastRet, directions[mk])
    /\ mx' = lastEval
    /\ us' = Append(us, lastRet)
    /\ mk' = mk + 1
    /\ opc' = "loop"
    /\ UNCHANGED <<kind, finished, log_p, sliceVars, ncalls, directions, mx0, mret,
                   mevals, gibbsVars>>

\* the 1-D sampler raised: the exception leaves MultiSampling.sample()
MultiRaise ==
    /\ opc = "inner"
    /\ pc = "raised"
    /\ opc' = "raised"
    /\ UNCHANGED <<kind, finished, log_p, sliceVars, ncalls, multiVars, gibbsVars>>

\* line 186: return self.x
MultiReturn ==
    /\ opc = "loop"
    /\ mk > Len(directions)
    /\ mret' = [n |-> mret.n + 1, last |-> mx]
    /\ opc' = "idle"
    /\ UNCHANGED <<kind, finished, log_p, sliceVars, ncalls, mx, directions, mk, mx0, us,
                   mevals, gibbsVars>>

\* a unimodal 2-D target: its level falls by one per grid step from the centre
Pyramid(c, peak) ==
    [q \in Core2 |-> Max(NegInf, peak - Abs(q[1] - c[1]) - Abs(q[2] - c[2]))]

Targets2 == {Pyramid(<<c, c>>, peak) : c \in 0..MaxX2, peak \in {Huge - 1, Huge}}

\* directions=[np.array([1,0]), np.array([0,1])]
AxisDirections == << <<1, 0>>, <<0, 1>> >>

\* directions=[np.array([1,1]), np.array([1,-1])]
DiagonalDirections == << <<1, 1>>, <<1, 0 - 1>> >>

DirectionSets == {AxisDirections, DiagonalDirections}

MultiInit ==
    /\ kind = "multi"
    /\ finished = <<>>
    /\ log_p \in Targets2
    /\ mx \in Core2
    /\ directions \in DirectionSets
    /\ w = UniW
    /\ x = 0
    /\ samples = 0
    /\ evals = 0
    /\ pc = "idle"
    /\ log_u_prime = NegInf
    /\ xl = 0
    /\ xr = 0
    /\ nret = 0
    /\ lastRet = 0
    /\ lastEval = mx
    /\ opc = "idle"
    /\ ncalls = 0
    /\ mk = 0
    /\ mx0 = mx
    /\ us = <<>>
    /\ mret = [n |-> 0, last |-> <<0, 0>>]
    /\ mevals = 0
    /\ heap = <<>>
    /\ gx = 0
    /\ lx = 0
    /\ gi = 0
    /\ gprev = <<>>
    /\ gviews = <<>>
    /\ gout = <<>>
    /\ collected = <<>>

MultiNext ==
    \/ MultiBegin
    \/ MultiDirection
    \/ MultiAdvance
    \/ MultiRaise
    \/ MultiReturn
    \/ StepOutLeft
    \/ StepOutRight
    \/ \E xp \in Positions : Accept(xp)
    \/ \E xp \in Positions : Reject(xp)

MultiSpec == MultiInit /\ [][MultiNext]_vars

\* ----------------------------------------------------- GibbsSampling
\* the values a coordinate takes
Values == Core
\* the draw of np.random.normal around its mean, in grid units
Noise == {0 - 1, 0, 1}

\* cond_prob(i, x): a draw centred on x[i] (Python indices from 0)
CondProb(i, view, z) == Max(0, Min(MaxX, view[i + 1] + z))

\* [lambda x: cond_prob(1,x), lambda x: cond_prob(0,x)]: the index each
\* transition reads
TransitionReads == <<1, 0>>

\* K = len(self.transitions)
K == Len(TransitionReads)

\* the second GibbsSampling cell is running: its transitions are
\* [lambda s: lm_Gibbs_w(s, ...), lambda s: lm_Gibbs_tau(s, ...)]
LmCell == kind = "gibbs" /\ Len(finished) = 4

\* lm_Gibbs_w reads sample[1] and lm_Gibbs_tau reads sample[0] (the indices
\* of TransitionReads); each returns a draw from a distribution of full
\* support whose parameters the item read sets: the draw z, any value
LmGibbs(i, view, z) == z

\* what the running cell's transitions draw from
Draws == IF LmCell THEN Values ELSE Noise

\* self.transitions[i](x)
Transition(i, view, z) ==
    IF LmCell THEN LmGibbs(TransitionReads[i + 1], view, z)
              ELSE CondProb(TransitionReads[i + 1], view, z)

\* CopyOf without the slice: x = self.x binds the stored list itself
CopyOfAlias(h, id) == h

\* x = self.x[:] : a new list with the items of self.x
CopyOf(h, id) == Append(h, h[id])

\* GibbsView reading the stored state self.x instead of the working copy
GibbsViewStored == heap[gx]

\* the argument of self.transitions[i](x): the local list x
GibbsView == heap[lx]

\* lines 352-353: copy the state, start the loop
GibbsBegin ==
    /\ kind = "gibbs"
    /\ opc = "idle"
    /\ ncalls < MaxCalls
    /\ ncalls' = ncalls + 1
    /\ heap' = CopyOf(heap, gx)
    /\ lx' = Len(heap')
    /\ gi' = 0
    /\ gprev' = heap[gx]
    /\ gviews' = <<>>
    /\ gout' = <<>>
    /\ opc' = "sweep"
    /\ UNCHANGED <<kind, finished, log_p, sliceVars, multiVars, gx, collected>>

\* lines 354-355: x[i] = self.transitions[i](x)
GibbsStep(z) ==
    /\ opc = "sweep"
    /\ gi < K
    /\ heap' = [heap EXCEPT ![lx][gi + 1] = Transition(gi, GibbsView, z)]
    /\ gviews' = Append(gviews, <<gi, GibbsView>>)
    /\ gout' = Append(gout, Transition(gi, GibbsView, z))
    /\ gi' = gi + 1
    /\ UNCHANGED <<kind, finished, log_p, sliceVars, opc, ncalls, multiVars, gx, lx, gprev,
                   collected>>

\* lines 356-357: self.x = x ; return x
GibbsEnd ==
    /\ opc = "sweep"
    /\ gi = K
    /\ gx' = lx
    /\ collected' = Append(collected, lx)
    /\ opc' = "idle"
    /\ UNCHANGED <<kind, finished, log_p, sliceVars, ncalls, multiVars, heap, lx, gi, gprev,
                   gviews, gout>>

\* GibbsSampling(transitions, x) with a list x of K or K+1 items
GibbsInit ==
    /\ kind = "gibbs"
    /\ finished = <<>>
    /\ log_p = <<>>
    /\ x = 0
    /\ w = 1
    /\ samples = 0
    /\ evals = 0
    /\ pc = "idle"
    /\ log_u_prime = NegInf
    /\ xl = 0
    /\ xr = 0
    /\ nret = 0
    /\ lastRet = 0
    /\ lastEval = 0
    /\ opc = "idle"
    /\ ncalls = 0
    /\ mx = <<0, 0>>
    /\ directions = <<>>
    /\ mk = 0
    /\ mx0 = <<0, 0>>
    /\ us = <<>>
    /\ mret = [n |-> 0, last |-> <<0, 0>>]
    /\ mevals = 0
    /\ \E n \in {K, K + 1} : \E init \in [1..n -> Values] : heap = <<init>>
    /\ gx = 1
    /\ lx = 0
    /\ gi = 0
    /\ gprev = <<>>
    /\ gviews = <<>>
    /\ gout = <<>>
    /\ collected = <<>>

GibbsNext ==
    \/ GibbsBegin
    \/ \E z \in Draws : GibbsStep(z)
    \/ GibbsEnd

GibbsSpec == GibbsInit /\ [][GibbsNext]_vars

\* ------------------------------------------------- the cells of the file
\* The code cells run top to bottom and each binds the name sampling to a
\* new sampler: the SliceSampling demonstration, the MultiSampling one along
\* the axes, the MultiSampling one along the diagonals, the GibbsSampling
\* one with cond_prob and the GibbsSampling one with lm_Gibbs_w and
\* lm_Gibbs_tau.  (The cell between them that shows smpl_widgets'
\* SamplingWidget builds its samplers inside smpl_widgets, which is not part
\* of this file: it has no step here.)
CellKinds == <<"slice", "multi", "multi", "gibbs", "gibbs">>

\* the loop of a cell over its sampler has ended after some returned
\* samples; the object is not used again (kind "between": no sampler is in
\* use until the next cell builds one)
CellEnds ==
    /\ \/ kind = "slice" /\ pc = "idle" /\ nret > 0
       \/ kind = "multi" /\ opc = "idle" /\ mret.n > 0
       \/ kind = "gibbs" /\ opc = "idle" /\ collected # <<>>
    /\ finished' = Append(finished, kind)
    /\ kind' = "between"
    /\ log_p' = <<>>
    /\ x' = 0
    /\ w' = 1
    /\ samples' = 0
    /\ evals' = 0
    /\ pc' = "idle"
    /\ log_u_prime' = NegInf
    /\ xl' = 0
    /\ xr' = 0
    /\ nret' = 0
    /\ lastRet' = 0
    /\ lastEval' = 0
    /\ opc' = "idle"
    /\ ncalls' = 0
    /\ mx' = <<0, 0>>
    /\ directions' = <<>>
    /\ mk' = 0
    /\ mx0' = <<0, 0>>
    /\ us' = <<>>
    /\ mret' = [n |-> 0, last |-> <<0, 0>>]
    /\ mevals' = 0
    /\ heap' = <<>>
    /\ gx' = 0
    /\ lx' = 0
    /\ gi' = 0
    /\ gprev' = <<>>
    /\ gviews' = <<>>
    /\ gout' = <<>>
    /\ collected' = <<>>

\* the directions of the MultiSampling cell that follows n ended cells
CellDirections(n) == IF n = 1 THEN AxisDirections ELSE DiagonalDirections

\* the next cell builds a MultiSampling object around SliceSampling: the
\* second cell of the file along the axes, the third along the diagonals
NextCellMulti ==
    /\ kind = "between"
    /\ Len(finished) < Len(CellKinds)
    /\ CellKinds[Len(finished) + 1] = "multi"
    /\ kind' = "multi"
    /\ log_p' \in Targets2
    /\ \E m \in Core2 : mx' = m /\ mx0' = m /\ lastEval' = m
    /\ directions' = CellDirections(Len(finished))
    /\ w' = UniW
    /\ UNCHANGED <<finished, x, samples, evals, pc, log_u_prime, xl, xr, nret,
                   lastRet, opc, ncalls, mk, us, mret, mevals, gibbsVars>>

\* the next cell builds a GibbsSampling object: the fourth cell with the
\* list [1.5, 0] (K or K+1 items here), the fifth with [w, 1.0] (K items)
NextCellGibbs ==
    /\ kind = "between"
    /\ Len(finished) < Len(CellKinds)
    /\ CellKinds[Len(finished) + 1] = "gibbs"
    /\ kind' = "gibbs"
    /\ \E n \in (IF Len(finished) = 3 THEN {K, K + 1} ELSE {K}) :
          \E init \in [1..n -> Values] : heap' = <<init>>
    /\ gx' = 1
    /\ UNCHANGED <<finished, log_p, sliceVars, opc, ncalls, multiVars, lx, gi,
                   gprev, gviews, gout, collected>>

\* the first code cell that builds a sampler builds the SliceSampling object
Init == SliceInit

Next ==
    \/ CellEnds
    \/ NextCellMulti
    \/ NextCellGibbs
    \/ SampleBegin
    \/ StepOutLeft
    \/ StepOutRight
    \/ \E xp \in Positions : Accept(xp)
    \/ \E xp \in Positions : Reject(xp)
    \/ MultiBegin
    \/ MultiDirection
    \/ MultiAdvance
    \/ MultiRaise
    \/ MultiReturn
    \/ GibbsBegin
    \/ \E z \in Draws : GibbsStep(z)
    \/ GibbsEnd

Spec == Init /\ [][Next]_vars

\* =====================================================================
\*                              Properties
\* =====================================================================
MidCall == pc \in {"left", "right", "shrink"}

\* C1  Bracket invariant: the step that accepts a proposal x' (the return of
\* SliceSampling.sample()) has xl <= x' <= xr for the bracket as it stands,
\* and log_p(x') > log_u for the slice level drawn in the same call.
BracketAtAcceptance ==
    [][(pc = "shrink" /\ pc' = "idle")
         => /\ xl <= x' /\ x' <= xr
            /\ lastRet' = x'
            /\ LogP(x') > log_u_prime]_vars

\* a first call has returned a point of positive density after more than
\* the four evaluations of a call without step-out extension or rejection
AcceptedAfterSearch ==
    /\ kind = "slice" /\ pc = "idle" /\ samples = 1 /\ nret = 1
    /\ x = lastRet /\ LogP(x) > NegInf
    /\ evals > 4

\* C8  Step-out: the initial bracket is [x - r*w, x + (1-r)*w], of width w
\* and containing x; the left end is extended first, in steps of w, then the
\* right end, with xl untouched; when step-out finishes both ends are at or
\* below the slice level, xl <= x <= xr and xr - xl is a positive multiple
\* of w.
StepOutPostcondition ==
    [][/\ (~MidCall /\ pc' = "left")
            => /\ xr' - xl' = w
               /\ xl' <= x' /\ x' <= xr'
       /\ pc = "left"
            => /\ xr' = xr /\ x' = x
               /\ pc' \in {"left", "right"}
               /\ xl' = (IF pc' = "left" THEN xl - w ELSE xl)
       /\ pc = "right"
            => /\ xl' = xl /\ x' = x
               /\ pc' \in {"right", "shrink"}
               /\ xr' = (IF pc' = "right" THEN xr + w ELSE xr)
       /\ (pc = "right" /\ pc' = "shrink")
            => /\ LogP(xl') <= log_u_prime'
               /\ LogP(xr') <= log_u_prime'
               /\ xl' <= x' /\ x' <= xr'
               /\ xr' - xl' >= w
               /\ (xr' - xl') % w = 0]_vars

\* C9  Shrink: a rejected proposal x' moves exactly one end of the bracket to
\* x' (xr if x' > x, else xl) and leaves the other end and x alone; x is not
\* changed by any step of a call before acceptance, so it is the position of
\* the start of the call; in the shrink loop xl <= x <= xr, and the bracket
\* never grows.
ShrinkStep ==
    [][/\ (pc = "shrink" /\ pc' = "shrink")
            => /\ \E xp \in xl..xr :
                     /\ ~(LogP(xp) > log_u_prime)
                     /\ IF xp > x THEN xr' = xp /\ xl' = xl
                                  ELSE xl' = xp /\ xr' = xr
               /\ xl <= xl' /\ xr' <= xr
               /\ x' = x
       /\ (MidCall /\ pc' # "idle") => x' = x
       /\ pc' = "shrink" => (xl' <= x' /\ x' <= xr')]_vars

\* rejections have made the bracket narrower than step-out can leave it
\* (the initial offsets add up to w - 1 at least, and step-out only widens):
\* the latest rejected proposal is now the left end
BracketShrunk ==
    /\ kind = "slice" /\ pc = "shrink"
    /\ xr - xl < w - 1
    /\ lastEval = xl
    /\ xl <= x /\ x <= xr

\* C2  Gibbs sweep view: in a GibbsSampling.sample() call the transitions
\* are invoked once each in index order 0..K-1, and the state passed to
\* transition i holds the values produced in this call for coordinates
\* 0..i-1 and, for coordinates i.. , the values the stored state had at the
\* end of the previous call (or the constructor's list).
StateBeforeCall ==
    IF collected = <<>> THEN heap[1] ELSE heap[collected[Len(collected)]]

GibbsSweepView ==
    kind = "gibbs" =>
      /\ opc = "sweep" => (Len(gviews) = gi /\ gprev = StateBeforeCall)
      /\ (opc = "idle" /\ ncalls > 0) => Len(gviews) = K
      /\ Len(gout) = Len(gviews)
      /\ \A j \in 1..Len(gviews) :
            /\ gviews[j][1] = j - 1
            /\ Len(gviews[j][2]) = Len(gprev)
            /\ \A c \in 1..Len(gprev) :
                  gviews[j][2][c] = (IF c < j THEN gout[c] ELSE gprev[c])

\* a second sweep has finished in which the first transition changed its
\* coordinate, so the second transition saw a new and an old value
SecondSweepDone ==
    /\ kind = "gibbs" /\ opc = "idle" /\ ncalls = 2
    /\ Len(gviews) = K
    /\ gout[1] # gprev[1]
    /\ gviews[2][2][1] = gout[1]
    /\ gviews[2][2][2] = gprev[2]

\* the sum of us[j]*directions[j] over j in 1..n
RECURSIVE SumMoves(_)
SumMoves(n) ==
    IF n = 0 THEN <<0, 0>>
    ELSE VecAdd(SumMoves(n - 1), VecScale(us[n], directions[n]))

\* C3 as stated, with exact sums: the density is evaluated at x_cur + u*d_k,
\* x becomes x_cur + u'_k*d_k, and the returned state equals the state
\* before the call plus the sum of u'_k*d_k.
SequentialCompositionExact ==
    [][kind' = "multi" =>
         /\ opc' \in {"loop", "inner", "raised"} => Len(us') = mk' - 1
         /\ mx' = VecAdd(mx0', SumMoves(Len(us))')
         /\ (opc' = "inner" /\ pc' # "idle")
               => /\ x' = 0 /\ samples' = 1
                  /\ \E v \in Positions :
                        lastEval' = VecAdd(mx', VecScale(v, directions'[mk']))
         /\ (opc' = "inner" /\ pc' = "idle")
               => /\ nret' = 1
                  /\ lastEval' = VecAdd(mx', VecScale(lastRet', directions'[mk']))
         /\ (opc = "inner" /\ opc' = "inner") => (mx' = mx /\ mk' = mk)
         /\ (opc = "inner" /\ opc' = "loop")
               => /\ us' = Append(us, lastRet) /\ mk' = mk + 1
                  /\ mx' = VecAdd(mx, VecScale(lastRet, directions[mk]))
         /\ (opc = "loop" /\ opc' = "idle")
               => /\ Len(us) = Len(directions)
                  /\ mret'.last = VecAdd(mx0, SumMoves(Len(us)))]_vars

\* p is px + ux*d as doubles add: a coordinate that gets 0 added is the
\* coordinate of px, any other is the exact sum or a neighbouring double
IsSumOfDoubles(p, px, ux, d) ==
    \A c \in 1..2 :
        IF ux * d[c] = 0 THEN p[c] = px[c]
                         ELSE Abs(p[c] - (px[c] + ux * d[c])) <= 1

\* p is q up to n roundings in each coordinate
WithinRoundings(p, q, n) == \A c \in 1..2 : Abs(p[c] - q[c]) <= n

\* C3  Sequential composition in MultiSampling.sample(), sums taken as the
\* code takes them: the directions are processed in list order; each gets a
\* fresh 1-D sampler at offset 0 whose density is evaluated at the double
\* x_cur + u*d_k (u the offset 0 or an offset of the bracket), x_cur being
\* the state updated by the earlier directions and unchanged while the 1-D
\* sampler runs; one offset is drawn per direction and x becomes the double
\* x_cur + u'_k*d_k, the point the accepted proposal was evaluated at; the
\* returned state is the stored state, and it is the state before the call
\* plus the sum of u'_k*d_k up to one rounding per direction.
SequentialComposition ==
    [][kind' = "multi" =>
         /\ opc' \in {"loop", "inner", "raised"} => Len(us') = mk' - 1
         /\ (opc' = "inner" /\ pc' # "idle")
               => /\ x' = 0 /\ samples' = 1
                  /\ \E v \in {0} \cup (xl..xr) :
                        IsSumOfDoubles(lastEval', mx', v, directions'[mk'])
         /\ (opc' = "inner" /\ pc' = "idle")
               => /\ nret' = 1
                  /\ IsSumOfDoubles(lastEval', mx', lastRet', directions'[mk'])
         /\ (opc = "inner" /\ opc' = "inner") => (mx' = mx /\ mk' = mk)
         /\ (opc = "inner" /\ opc' = "loop")
               => /\ us' = Append(us, lastRet) /\ mk' = mk + 1
                  /\ IsSumOfDoubles(mx', mx, lastRet, directions[mk])
                  /\ mx' = lastEval
         /\ (opc = "loop" /\ opc' = "idle")
               => /\ Len(us) = Len(directions)
                  /\ mret'.last = mx
                  /\ WithinRoundings(mx, VecAdd(mx0, SumMoves(Len(us))), Len(us))]_vars

\* a call has returned after a non-zero offset along each of the two
\* directions, and rounding has made the returned state differ from the
\* state before the call plus the sum of the moves
MovedAlongBothDirections ==
    /\ kind = "multi" /\ opc = "idle" /\ mret.n > 0
    /\ Len(us) = 2 /\ us[1] # 0 /\ us[2] # 0
    /\ mret.last # VecAdd(mx0, SumMoves(2))
    /\ WithinRoundings(mret.last, VecAdd(mx0, SumMoves(2)), 2)

\* C4  After completed sample() calls the stored state equals the value the
\* most recent call returned, each completed call returns exactly one state,
\* and the stored state changes only where a new value is produced: in
\* SliceSampling only at acceptance, in MultiSampling at the end of each
\* direction's step, in GibbsSampling at the end of the sweep (a step on
\* which kind changes builds a new object and is no step of the old one).
StoredIsReturned ==
    /\ (pc = "idle" /\ nret > 0) => x = lastRet
    /\ (kind = "multi" /\ opc = "idle" /\ mret.n > 0) => mx = mret.last
    /\ (kind = "gibbs" /\ opc = "idle" /\ collected # <<>>)
          => /\ gx = collected[Len(collected)]
             /\ Len(collected) = ncalls

CurrentStateStep ==
    [][/\ StoredIsReturned'
       /\ (pc = "shrink" /\ pc' = "idle") => nret' = nret + 1
       /\ (kind = "slice" /\ kind' = kind /\ ~(pc = "shrink" /\ pc' = "idle"))
             => (x' = x /\ nret' = nret /\ lastRet' = lastRet)
       /\ (kind = "multi" /\ kind' = kind /\ ~(opc = "inner" /\ opc' = "loop"))
             => mx' = mx
       /\ (kind = "multi" /\ kind' = kind /\ ~(opc = "loop" /\ opc' = "idle"))
             => mret' = mret
       /\ (opc = "loop" /\ opc' = "idle") => mret'.n = mret.n + 1
       /\ (kind = "gibbs" /\ kind' = kind /\ ~(opc = "sweep" /\ opc' = "idle"))
             => (gx' = gx /\ heap'[gx] = heap[gx] /\ collected' = collected)
       /\ (opc = "sweep" /\ opc' = "idle")
             => Len(collected') = Len(collected) + 1]_vars

\* the loops over the SliceSampling object and the two MultiSampling objects
\* have ended with returned states, and two sweeps of the GibbsSampling object have
\* returned, the second a new list that is now the stored state
ThreeSamplersReturned ==
    /\ finished = <<"slice", "multi", "multi">>
    /\ kind = "gibbs" /\ opc = "idle"
    /\ Len(collected) = 2 /\ gx = collected[2]
    /\ heap[collected[2]] # heap[collected[1]]

\* C5  Termination of the shrink-and-accept loop: for a target whose
\* log-density at the current position x is finite, x satisfies
\* log_p(x) > log_u and stays inside the bracket, so while the loop runs the
\* bracket always holds a proposal that the loop accepts.
ShrinkLoopCanAccept ==
    (pc = "shrink" /\ LogP(x) # NegInf)
        => /\ LogP(x) > log_u_prime
           /\ xl <= x /\ x <= xr
           /\ \E xp \in Proposals : LogP(xp) > log_u_prime

\* the target is zero everywhere except at a single point
Degenerate == Cardinality({v \in Core : log_p[v] # NegInf}) = 1

\* C6  Degenerate density: with a target that is zero except at one point a
\* sample() call raises or returns and never loops forever.  The main loop
\* has no exit but acceptance and its bracket never grows, so the call can
\* end only if, whenever the loop runs, some proposal of the bracket would be
\* accepted.
DegenerateCallEnds ==
    (kind = "slice" /\ Degenerate /\ pc = "shrink")
        => \E xp \in Proposals : LogP(xp) > log_u_prime

\* C10  Diagnostic counters: in every state, the middle of a sample() call
\* included, the sample counter equals the number of samples accepted so far.
SamplesCountsAccepted == kind = "slice" => samples = nret

\* the lists the caller holds: the constructor's list and every list the
\* driving loop has collected from sample()
HeldLists == {1} \cup {collected[n] : n \in 1..Len(collected)}

\* C11  No aliasing between Gibbs sweeps: sample() works on a top-level copy
\* of the stored list, so no step of a call changes an item of the list given
\* to the constructor or of a list returned by an earlier call; the lists the
\* driving loop has collected are distinct objects, none of them the
\* constructor's list; and the items with index >= K keep, across the call,
\* the value the stored state had when the call started.
NoAliasingBetweenSweeps ==
    [][kind' = "gibbs" =>
         /\ \A id \in HeldLists : heap'[id] = heap[id]
         /\ \A n \in 1..Len(collected') :
               /\ collected'[n] # 1
               /\ \A m \in 1..Len(collected') :
                     (m # n) => (collected'[m] # collected'[n])
         /\ opc' = "sweep"
               => /\ lx' \notin HeldLists'
                  /\ lx' # gx'
                  /\ Len(heap'[lx']) = Len(gprev')
                  /\ \A c \in (gi' + 1)..Len(gprev') : heap'[lx'][c] = gprev'[c]
         /\ (opc = "sweep" /\ opc' = "idle")
               => /\ Len(heap'[gx']) = Len(gprev)
                  /\ \A c \in (K + 1)..Len(gprev) : heap'[gx'][c] = gprev[c]]_vars

\* the driving loop holds two returned lists of K+1 items that differ from
\* each other and from the constructor's list, the item without a transition
\* being the same in all three
TwoIndependentStates ==
    /\ kind = "gibbs" /\ opc = "idle" /\ Len(collected) = 2
    /\ Len(heap[1]) = K + 1
    /\ heap[collected[1]] # heap[1]
    /\ heap[collected[2]] # heap[collected[1]]
    /\ heap[collected[1]][K + 1] = heap[1][K + 1]
    /\ heap[collected[2]][K + 1] = heap[1][K + 1]
====
